---- MODULE Spec2Model ----
(***************************************************************************)
(* Model of haiku/_src/pad.py: the five padding policies and create, the   *)
(* padding planner.  create is modelled step by step: the three calls of   *)
(* utils.replicate that Python evaluates eagerly as arguments of map, and  *)
(* then the lazy iteration of the two nested map objects by tuple().       *)
(***************************************************************************)
EXTENDS Integers, Sequences, FiniteSets, TLC

VARIABLES
    pc,          \* position of the caller: idle, inside create, or after a return/raise
    padding,     \* create's argument padding (scalar or sequence of policies)
    kernel,      \* create's argument kernel (scalar or sequence of ints)
    rate,        \* create's argument rate (scalar or sequence of ints)
    n,           \* create's argument n
    kernelSeq,   \* utils.replicate(kernel, n, "kernel")
    rateSeq,     \* utils.replicate(rate, n, "rate")
    paddingSeq,  \* utils.replicate(padding, n, "padding")
    i,           \* number of items tuple() has drawn from paddings so far
    x,           \* the policy bound to x in lambda x, y: x(y) / the policy called
    y,           \* the effective kernel size bound to y / passed to the policy
    ret,         \* the pair returned by the last policy invocation
    paddings,    \* the items tuple() has collected so far
    result,      \* the tuple create returned
    raised,      \* the argument name carried by the error replicate raised ("" if none)
    trace,       \* the calls made inside create so far, in order
    seen         \* an earlier finished call of create: its arguments and outcome

vars == <<pc, padding, kernel, rate, n, kernelSeq, rateSeq, paddingSeq,
          i, x, y, ret, paddings, result, raised, trace, seen>>

----------------------------------------------------------------------------
(* Bounds of the model *)

\* largest number of spatial dimensions, and longest sequence argument
MaxN == 2

\* largest effective kernel size passed to a policy that is called directly
MaxEff == 24

\* kernel sizes and dilation rates tried; 0 is the out-of-contract value
KernelVals == {0, 1, 2}
RateVals == {0, 1, 2}

\* the narrower inputs of the calls whose outcomes are compared with each other
HistPolicies == {"same", "causal"}
HistKernelVals == {2}
HistRateVals == {1, 2}

----------------------------------------------------------------------------
(* The padding policies *)

valid(effective_kernel_size) == <<0, 0>>

\* same with the odd unit put before instead of after
SameExtraBefore(effective_kernel_size) ==
    <<effective_kernel_size \div 2, (effective_kernel_size - 1) \div 2>>

\* same as half the kernel on each side, one less before
SameHalfMinusOne(effective_kernel_size) ==
    <<effective_kernel_size \div 2 - 1, effective_kernel_size \div 2>>

same(effective_kernel_size) ==
    <<(effective_kernel_size - 1) \div 2, effective_kernel_size \div 2>>

full(effective_kernel_size) ==
    <<effective_kernel_size - 1, effective_kernel_size - 1>>

\* causal padding put after instead of before
CausalMirrored(effective_kernel_size) == <<0, effective_kernel_size - 1>>

causal(effective_kernel_size) == <<effective_kernel_size - 1, 0>>

reverse_causal(effective_kernel_size) == <<0, effective_kernel_size - 1>>

\* the five policy functions, by name
Policies == {"valid", "same", "full", "causal", "reverse_causal"}

\* x(y): the call of the policy named f
ApplyPolicy(f, k) ==
    CASE f = "valid" -> valid(k)
      [] f = "same" -> same(k)
      [] f = "full" -> full(k)
      [] f = "causal" -> causal(k)
      [] f = "reverse_causal" -> reverse_causal(k)

----------------------------------------------------------------------------
(* Argument values: an int or a callable is a scalar, a list is a sequence *)

Scalar(v) == [seq |-> FALSE, val |-> <<v>>]

Sequence(s) == [seq |-> TRUE, val |-> s]

SeqsUpTo(S, len) == UNION {[1..l -> S] : l \in 0..len}

ArgsOver(S) == {Scalar(v) : v \in S} \cup {Sequence(s) : s \in SeqsUpTo(S, MaxN)}

\* utils.replicate(element, num_times, name)
replicate(element, num_times, name) ==
    IF ~element.seq
    THEN [ok |-> TRUE, val |-> [j \in 1..num_times |-> element.val[1]], name |-> ""]
    ELSE IF Len(element.val) = 1
    THEN [ok |-> TRUE, val |-> [j \in 1..num_times |-> element.val[1]], name |-> ""]
    ELSE IF Len(element.val) = num_times
    THEN [ok |-> TRUE, val |-> element.val, name |-> ""]
    ELSE [ok |-> FALSE, val |-> <<>>, name |-> name]

\* the effective size without the final tap
EffectiveKernelSizeNoTap(k, r) == (k - 1) * r

\* the effective size with out-of-contract values clamped to 1
EffectiveKernelSizeClamped(k, r) ==
    ((IF k < 1 THEN 1 ELSE k) - 1) * (IF r < 1 THEN 1 ELSE r) + 1

\* lambda kernel, rate: (kernel - 1) * rate + 1
EffectiveKernelSize(k, r) == (k - 1) * r + 1

Event(op, dim) == [op |-> op, dim |-> dim]

----------------------------------------------------------------------------
(* State *)

NoCall == [called |-> FALSE, padding |-> Scalar("valid"), kernel |-> Scalar(1),
           rate |-> Scalar(1), n |-> 0, outcome |-> "", result |-> <<>>, raised |-> ""]

\* no call in progress: every local of create is gone
Idle ==
    /\ pc = "idle"
    /\ padding = Scalar("valid")
    /\ kernel = Scalar(1)
    /\ rate = Scalar(1)
    /\ n = 0
    /\ kernelSeq = <<>>
    /\ rateSeq = <<>>
    /\ paddingSeq = <<>>
    /\ i = 0
    /\ x = "valid"
    /\ y = 1
    /\ ret = <<0, 0>>
    /\ paddings = <<>>
    /\ result = <<>>
    /\ raised = ""
    /\ trace = <<>>

Init == Idle /\ seen = NoCall

\* a frame whose list of collected pairs outlives the call
DiscardKeepsPaddings ==
    /\ pc' = "idle"
    /\ padding' = Scalar("valid")
    /\ kernel' = Scalar(1)
    /\ rate' = Scalar(1)
    /\ n' = 0
    /\ kernelSeq' = <<>>
    /\ rateSeq' = <<>>
    /\ paddingSeq' = <<>>
    /\ i' = 0
    /\ x' = "valid"
    /\ y' = 1
    /\ ret' = <<0, 0>>
    /\ paddings' = paddings
    /\ result' = <<>>
    /\ raised' = ""
    /\ trace' = <<>>

\* the frame of a finished call is discarded: back to Idle
Discard ==
    /\ pc' = "idle"
    /\ padding' = Scalar("valid")
    /\ kernel' = Scalar(1)
    /\ rate' = Scalar(1)
    /\ n' = 0
    /\ kernelSeq' = <<>>
    /\ rateSeq' = <<>>
    /\ paddingSeq' = <<>>
    /\ i' = 0
    /\ x' = "valid"
    /\ y' = 1
    /\ ret' = <<0, 0>>
    /\ paddings' = <<>>
    /\ result' = <<>>
    /\ raised' = ""
    /\ trace' = <<>>

----------------------------------------------------------------------------
(* create *)

\* a call create(padding, kernel, rate, n) is entered
Enter(p, k, r, num) ==
    /\ padding' = p
    /\ kernel' = k
    /\ rate' = r
    /\ n' = num
    /\ pc' = "replicate_kernel"
    /\ UNCHANGED <<kernelSeq, rateSeq, paddingSeq, i, x, y, ret, paddings,
                   result, raised, trace, seen>>

Call ==
    /\ pc = "idle"
    /\ \E p \in ArgsOver(Policies), k \in ArgsOver(KernelVals),
          r \in ArgsOver(RateVals), num \in 0..MaxN :
           Enter(p, k, r, num)

\* a kernel sequence that is too long is cut to n instead of rejected
ReplicateKernelTruncates ==
    /\ pc = "replicate_kernel"
    /\ LET res == replicate(kernel, n, "kernel")
           cut == kernel.seq /\ Len(kernel.val) > n
       IN
        /\ kernelSeq' = IF cut THEN SubSeq(kernel.val, 1, n) ELSE res.val
        /\ raised' = IF cut THEN "" ELSE res.name
        /\ pc' = IF cut \/ res.ok THEN "replicate_rate" ELSE "error"
    /\ trace' = Append(trace, Event("replicate_kernel", 0))
    /\ UNCHANGED <<padding, kernel, rate, n, rateSeq, paddingSeq, i, x, y, ret,
                   paddings, result, seen>>

\* rate is checked ahead of kernel
ReplicateKernelAfterRate ==
    /\ pc = "replicate_kernel"
    /\ LET first == replicate(rate, n, "rate")
           res == replicate(kernel, n, "kernel")
       IN
        /\ kernelSeq' = IF first.ok THEN res.val ELSE <<>>
        /\ raised' = IF first.ok THEN res.name ELSE first.name
        /\ pc' = IF first.ok /\ res.ok THEN "replicate_rate" ELSE "error"
    /\ trace' = Append(trace, Event("replicate_kernel", 0))
    /\ UNCHANGED <<padding, kernel, rate, n, rateSeq, paddingSeq, i, x, y, ret,
                   paddings, result, seen>>

\* utils.replicate(kernel, n, "kernel"), the first argument evaluated
ReplicateKernel ==
    /\ pc = "replicate_kernel"
    /\ LET res == replicate(kernel, n, "kernel") IN
        /\ kernelSeq' = res.val
        /\ raised' = res.name
        /\ pc' = IF res.ok THEN "replicate_rate" ELSE "error"
    /\ trace' = Append(trace, Event("replicate_kernel", 0))
    /\ UNCHANGED <<padding, kernel, rate, n, rateSeq, paddingSeq, i, x, y, ret,
                   paddings, result, seen>>

\* utils.replicate(rate, n, "rate"), evaluated next; map() then builds the
\* lazy effective_kernel_size object
ReplicateRate ==
    /\ pc = "replicate_rate"
    /\ LET res == replicate(rate, n, "rate") IN
        /\ rateSeq' = res.val
        /\ raised' = res.name
        /\ pc' = IF res.ok THEN "replicate_padding" ELSE "error"
    /\ trace' = Append(trace, Event("replicate_rate", 0))
    /\ UNCHANGED <<padding, kernel, rate, n, kernelSeq, paddingSeq, i, x, y, ret,
                   paddings, result, seen>>

\* utils.replicate(padding, n, "padding"); map() then builds the lazy paddings
ReplicatePadding ==
    /\ pc = "replicate_padding"
    /\ LET res == replicate(padding, n, "padding") IN
        /\ paddingSeq' = res.val
        /\ raised' = res.name
        /\ pc' = IF res.ok THEN "tuple" ELSE "error"
    /\ trace' = Append(trace, Event("replicate_padding", 0))
    /\ UNCHANGED <<padding, kernel, rate, n, kernelSeq, rateSeq, i, x, y, ret,
                   paddings, result, seen>>

\* a loop that runs its body before testing for the end: with nothing to
\* draw, the first pass fails on the missing item
TupleNextAtLeastOnce ==
    /\ pc = "tuple"
    /\ IF i < Len(paddingSeq) /\ i < Len(kernelSeq) /\ i < Len(rateSeq)
       THEN /\ x' = paddingSeq[i + 1]
            /\ pc' = "effective_kernel_size"
            /\ UNCHANGED <<result, raised>>
       ELSE IF i = 0
       THEN /\ raised' = "index"
            /\ pc' = "error"
            /\ UNCHANGED <<x, result>>
       ELSE /\ result' = paddings
            /\ pc' = "done"
            /\ UNCHANGED <<x, raised>>
    /\ UNCHANGED <<padding, kernel, rate, n, kernelSeq, rateSeq, paddingSeq, i, y,
                   ret, paddings, trace, seen>>

\* tuple(paddings) asks the outer map for its next item: the map draws x from
\* the replicated padding, or stops when that is exhausted and create returns
TupleNext ==
    /\ pc = "tuple"
    /\ IF i < Len(paddingSeq) /\ i < Len(kernelSeq) /\ i < Len(rateSeq)
       THEN /\ x' = paddingSeq[i + 1]
            /\ pc' = "effective_kernel_size"
            /\ UNCHANGED result
       ELSE /\ result' = paddings
            /\ pc' = "done"
            /\ UNCHANGED x
    /\ UNCHANGED <<padding, kernel, rate, n, kernelSeq, rateSeq, paddingSeq, i, y,
                   ret, paddings, raised, trace, seen>>

\* the outer map draws y from effective_kernel_size, which only now computes
\* (kernel - 1) * rate + 1 for this dimension
NextEffectiveKernelSize ==
    /\ pc = "effective_kernel_size"
    /\ y' = EffectiveKernelSize(kernelSeq[i + 1], rateSeq[i + 1])
    /\ trace' = Append(trace, Event("effective_kernel_size", i + 1))
    /\ pc' = "policy"
    /\ UNCHANGED <<padding, kernel, rate, n, kernelSeq, rateSeq, paddingSeq, i, x,
                   ret, paddings, result, raised, seen>>

\* the pairs collected in reverse dimension order
ApplyPaddingPrepends ==
    /\ pc = "policy"
    /\ ret' = ApplyPolicy(x, y)
    /\ paddings' = <<ApplyPolicy(x, y)>> \o paddings
    /\ i' = i + 1
    /\ trace' = Append(trace, Event("policy", i + 1))
    /\ pc' = "tuple"
    /\ UNCHANGED <<padding, kernel, rate, n, kernelSeq, rateSeq, paddingSeq, x, y,
                   result, raised, seen>>

\* lambda x, y: x(y), and tuple() collects the pair
ApplyPadding ==
    /\ pc = "policy"
    /\ ret' = ApplyPolicy(x, y)
    /\ paddings' = Append(paddings, ApplyPolicy(x, y))
    /\ i' = i + 1
    /\ trace' = Append(trace, Event("policy", i + 1))
    /\ pc' = "tuple"
    /\ UNCHANGED <<padding, kernel, rate, n, kernelSeq, rateSeq, paddingSeq, x, y,
                   result, raised, seen>>

\* the caller has the tuple or the error; create's frame is discarded
Return ==
    /\ pc \in {"done", "error"}
    /\ Discard
    /\ UNCHANGED seen

\* as Return, and the finished call is kept for comparison with later calls
Remember ==
    /\ pc \in {"done", "error"}
    /\ seen' = [called |-> TRUE, padding |-> padding, kernel |-> kernel,
                rate |-> rate, n |-> n, outcome |-> pc, result |-> result,
                raised |-> raised]
    /\ Discard

\* a call of create with arguments from the narrower sets
CallSmall ==
    /\ pc = "idle"
    /\ \E p \in ArgsOver(HistPolicies), k \in ArgsOver(HistKernelVals),
          r \in {Scalar(v) : v \in HistRateVals}, num \in 0..MaxN :
           Enter(p, k, r, num)

----------------------------------------------------------------------------
(* The policies called directly *)

CallPolicy ==
    /\ pc = "idle"
    /\ \E f \in Policies, k \in 1..MaxEff :
        /\ x' = f
        /\ y' = k
        /\ ret' = ApplyPolicy(f, k)
    /\ pc' = "policy_done"
    /\ UNCHANGED <<padding, kernel, rate, n, kernelSeq, rateSeq, paddingSeq, i,
                   paddings, result, raised, trace, seen>>

ReturnPolicy ==
    /\ pc = "policy_done"
    /\ Discard
    /\ UNCHANGED seen

----------------------------------------------------------------------------

Next ==
    \/ Call
    \/ ReplicateKernel
    \/ ReplicateRate
    \/ ReplicatePadding
    \/ TupleNext
    \/ NextEffectiveKernelSize
    \/ ApplyPadding
    \/ Return
    \/ CallPolicy
    \/ ReturnPolicy

Spec == Init /\ [][Next]_vars

\* repeated calls of create, one finished call remembered
HistNext ==
    \/ CallSmall
    \/ ReplicateKernel
    \/ ReplicateRate
    \/ ReplicatePadding
    \/ TupleNext
    \/ NextEffectiveKernelSize
    \/ ApplyPadding
    \/ Return
    \/ Remember

SpecHistory == Init /\ [][HistNext]_vars

----------------------------------------------------------------------------
(* What the claims speak about *)

\* the value argument arg supplies for dimension d (1-based) once normalized
ArgAt(arg, d) == IF ~arg.seq \/ Len(arg.val) = 1 THEN arg.val[1] ELSE arg.val[d]

\* arg is a sequence whose length is neither 1 nor n
BadLen(arg) == arg.seq /\ Len(arg.val) # 1 /\ Len(arg.val) # n

Elems(arg) == {arg.val[j] : j \in 1..Len(arg.val)}

\* every kernel size and every rate given is >= 1
InContract == \A v \in Elems(kernel) \cup Elems(rate) : v >= 1

\* the names of the arguments of wrong length
Offending ==
    {nm \in {"kernel", "rate", "padding"} :
        \/ nm = "kernel" /\ BadLen(kernel)
        \/ nm = "rate" /\ BadLen(rate)
        \/ nm = "padding" /\ BadLen(padding)}

PolicyInvoked == \E j \in 1..Len(trace) : trace[j].op = "policy"

\* the plan the planner's algorithm prescribes for the current arguments
PlanMatchesArguments ==
    /\ Len(result) = n
    /\ \A d \in 1..n :
        result[d] = ApplyPolicy(ArgAt(padding, d),
                                (ArgAt(kernel, d) - 1) * ArgAt(rate, d) + 1)

\* the table of section 4.1
Tabulated(f, k) ==
    CASE f = "valid" -> <<0, 0>>
      [] f = "same" -> <<(k - 1) \div 2, k \div 2>>
      [] f = "full" -> <<k - 1, k - 1>>
      [] f = "causal" -> <<k - 1, 0>>
      [] f = "reverse_causal" -> <<0, k - 1>>

\* a policy has just returned ret for the effective kernel size y
PolicyReturned == pc = "policy_done" \/ (pc = "tuple" /\ i > 0)

----------------------------------------------------------------------------
(* C1: with arguments that normalize to length n and all kernel sizes and   *)
(* rates >= 1, create does not fail and returns exactly n pairs, the d-th   *)
(* being padding[d] applied to (kernel[d] - 1) * rate[d] + 1, in dimension  *)
(* order, each pair ordered (pad_before, pad_after).                        *)
C1_PlanPerDimension ==
    (InContract /\ Offending = {}) =>
        /\ pc # "error"
        /\ pc = "done" => PlanMatchesArguments

C1_Witness ==
    /\ pc = "done"
    /\ n = 2
    /\ padding = Sequence(<<"valid", "causal">>)
    /\ kernel = Sequence(<<1, 2>>)
    /\ rate = Scalar(2)
    /\ result = <<<<0, 0>>, <<2, 0>>>>

(* C2: if padding, kernel or rate is a sequence of a length that is neither *)
(* 1 nor n, create raises an arity error naming an offending argument; it   *)
(* is raised during normalization, before any policy is invoked, and no     *)
(* plan, full or partial, is produced.                                      *)
C2_ArityError ==
    Offending # {} =>
        /\ pc \in {"replicate_kernel", "replicate_rate", "replicate_padding", "error"}
        /\ pc = "error" => raised \in Offending
        /\ ~PolicyInvoked
        /\ paddings = <<>>
        /\ result = <<>>

C2_Witness ==
    /\ pc = "error"
    /\ n = 1
    /\ kernel = Sequence(<<1, 2>>)
    /\ raised = "kernel"
    /\ trace = <<Event("replicate_kernel", 0)>>

(* C3: for every k >= 1 each policy returns the tabulated pair, and causal  *)
(* and reverse_causal are mirror images of each other.                      *)
C3_PolicyTable ==
    (PolicyReturned /\ y >= 1) =>
        /\ ret = Tabulated(x, y)
        /\ x = "causal" => ret = <<reverse_causal(y)[2], reverse_causal(y)[1]>>
        /\ x = "reverse_causal" => ret = <<causal(y)[2], causal(y)[1]>>

C3_Witness ==
    /\ pc = "policy_done"
    /\ x = "causal"
    /\ y = 7
    /\ ret = <<6, 0>>

(* C4: for every k >= 1, same(k) splits a total of k - 1, and after - before *)
(* is 0 when k - 1 is even and 1 when k - 1 is odd: the extra unit goes to  *)
(* the after side.                                                          *)
C4_SameSplit ==
    (PolicyReturned /\ x = "same" /\ y >= 1) =>
        /\ ret[1] + ret[2] = y - 1
        /\ ret[2] - ret[1] = (y - 1) % 2

C4_Witness ==
    /\ pc = "policy_done"
    /\ x = "same"
    /\ y = 4
    /\ ret = <<1, 2>>

(* C5: every policy, given k >= 1, returns a pair of two non-negative       *)
(* integers; so every entry of a plan create returns for kernel sizes and   *)
(* rates >= 1 has before >= 0 and after >= 0.                               *)
C5_NonNegative ==
    /\ (PolicyReturned /\ y >= 1) =>
        /\ Len(ret) = 2
        /\ ret[1] \in Nat
        /\ ret[2] \in Nat
    /\ (pc = "done" /\ InContract) =>
        \A d \in 1..Len(result) : result[d][1] >= 0 /\ result[d][2] >= 0

C5_Witness ==
    /\ pc = "done"
    /\ InContract
    /\ n = 2
    /\ padding = Sequence(<<"full", "same">>)
    /\ result = <<<<2, 2>>, <<0, 1>>>>

(* C6: when every kernel size and rate given to create is >= 1, every       *)
(* effective kernel size create passes to a policy is >= 1; and where the   *)
(* rate of a dimension is 1 the effective kernel size is the kernel size.   *)
C6_EffectiveAtLeastOne ==
    pc = "policy" =>
        /\ InContract => y >= 1
        /\ ArgAt(rate, i + 1) = 1 => y = ArgAt(kernel, i + 1)

C6_Witness ==
    /\ pc = "policy"
    /\ InContract
    /\ i = 1
    /\ kernel = Sequence(<<2, 2>>)
    /\ rate = Sequence(<<2, 1>>)
    /\ y = 2

(* C7 as stated: called with a kernel size or rate <= 0, create fails       *)
(* instead of returning a plan.                                             *)
C7_FailsFast ==
    (\E v \in Elems(kernel) \cup Elems(rate) : v <= 0) => pc # "done"

(* C7 as amended: create neither validates nor clamps: called with a kernel *)
(* size or rate <= 0 it fails only for a wrong length, and otherwise        *)
(* returns the plan computed from the values as given.                      *)
C7_NoValidationNoClamp ==
    ~InContract =>
        /\ pc = "error" => Offending # {}
        /\ pc = "done" => PlanMatchesArguments

C7_Witness ==
    /\ pc = "done"
    /\ n = 1
    /\ padding = Scalar("full")
    /\ kernel = Scalar(0)
    /\ rate = Scalar(1)
    /\ result = <<<<-1, -1>>>>

(* C8: create with n = 0 and scalar arguments returns the empty plan, not   *)
(* an error, and invokes no policy.                                         *)
C8_EmptyPlan ==
    (n = 0 /\ ~padding.seq /\ ~kernel.seq /\ ~rate.seq) =>
        /\ pc \notin {"error", "effective_kernel_size", "policy"}
        /\ ~PolicyInvoked
        /\ pc = "done" => result = <<>>

C8_Witness ==
    /\ pc = "done"
    /\ n = 0
    /\ padding = Scalar("same")
    /\ kernel = Scalar(2)
    /\ rate = Scalar(2)
    /\ result = <<>>
    /\ Len(trace) = 3

(* C9: a call of create ends as every earlier call with the same arguments  *)
(* ended, whatever calls were made in between: the same plan, or the same   *)
(* failure.                                                                 *)
C9_SameArgumentsSameOutcome ==
    (/\ pc \in {"done", "error"}
     /\ seen.called
     /\ seen.padding = padding
     /\ seen.kernel = kernel
     /\ seen.rate = rate
     /\ seen.n = n) =>
        /\ seen.outcome = pc
        /\ seen.result = result
        /\ seen.raised = raised

C9_Witness ==
    /\ pc = "done"
    /\ seen.called
    /\ seen.padding = padding
    /\ seen.kernel = kernel
    /\ seen.rate = rate
    /\ seen.n = n
    /\ n = 2
    /\ padding = Sequence(<<"causal", "same">>)
    /\ result = <<<<2, 0>>, <<1, 1>>>>

\* the j-th call create makes: kernel, rate, padding, then per dimension the
\* effective size and at once the policy
Canonical(j) ==
    IF j = 1 THEN Event("replicate_kernel", 0)
    ELSE IF j = 2 THEN Event("replicate_rate", 0)
    ELSE IF j = 3 THEN Event("replicate_padding", 0)
    ELSE IF j % 2 = 0 THEN Event("effective_kernel_size", (j - 2) \div 2)
    ELSE Event("policy", (j - 3) \div 2)

(* C10: create normalizes kernel, then rate, then padding, and only then    *)
(* invokes the policies, one per dimension in increasing order, each right  *)
(* after that dimension's effective size is computed; so an arity error     *)
(* names kernel before rate and rate before padding.                        *)
C10_Order ==
    /\ \A j \in 1..Len(trace) : trace[j] = Canonical(j)
    /\ Len(trace) <= 3 + 2 * n
    /\ pc = "error" =>
        /\ raised = (IF BadLen(kernel) THEN "kernel"
                     ELSE IF BadLen(rate) THEN "rate" ELSE "padding")
        /\ raised = "rate" => Len(trace) = 2
        /\ raised = "padding" =>
            Len(trace) = 3 /\ Len(kernelSeq) = n /\ Len(rateSeq) = n
    /\ pc = "done" => Len(trace) = 3 + 2 * n

C10_Witness ==
    /\ pc = "error"
    /\ raised = "rate"
    /\ BadLen(rate)
    /\ BadLen(padding)
    /\ ~BadLen(kernel)

====
